---- MODULE Spec2Model ----
(***************************************************************************)
(* Scoped resources (NewFileResource, TempFileResource, NewDBResource,     *)
(* RunTransaction, QueryRows) and the SafeWaitGroup of using-cps-in-golang.*)
(*                                                                         *)
(* Spec   : one goroutine invoking scoped resources, possibly nested.      *)
(* WGSpec : one SafeWaitGroup, a submitting goroutine and task goroutines. *)
(* RGSpec : concurrent RunGroup calls, each with its own SafeWaitGroup.    *)
(* HelloSpec : successive calls of helloSql_Cool.                          *)
(***************************************************************************)
EXTENDS Integers, Sequences, FiniteSets, TLC

\* Bounds of the model.
MaxInvocations == 2
MaxDepth == 2
MaxTasks == 3
MaxValues == 1
MaxGroups == 2
MaxGroupTasks == 2
MaxHelloCalls == 2

VARIABLES
    stack,      \* call stack of scoped-resource invocations, innermost last
    log,        \* calls made to the collaborator primitives and to callbacks, in order
    nextId,     \* number of the next invocation (also names its handle)
    open,       \* handles acquired and not yet closed / committed / rolled back
    tempFiles,  \* temp files present on disk
    result,     \* value returned by the last top-level invocation
    panicking,  \* a callback panicked and the stack is being unwound
    crashed,    \* an unrecovered panic reached the top of the goroutine
    made,       \* the resource values that exist (made by a factory, or package-level)
    counter,    \* sync.WaitGroup counter of the SafeWaitGroup
    task,       \* per submitted task: position of its goroutine
    mainpc,     \* position of the goroutine that calls Run and Wait
    runs,       \* number of Run calls that executed wg.Add(1)
    slots,      \* the pre-sized results container the tasks write into
    writes,     \* per slot: number of writes made to it
    wgs,        \* counters of the wait groups allocated by NewSafeWaitGroup
    group,      \* per RunGroup call: its position, its swg, whether taskRunner returned
    gtask,      \* per task submitted through a Spawner: its goroutine's position and owner
    hpc,        \* position inside the running helloSql_Cool call
    hlog,       \* calls made by helloSql_Cool to the sql primitives, and its returns
    hcall,      \* number of helloSql_Cool calls started
    txerr,      \* err of the transaction callback (line 33 / 38)
    rowserr     \* err of QueryRows.Use (line 108)

resvars == <<stack, log, nextId, open, tempFiles, result, panicking, crashed, made>>
wgvars == <<counter, task, mainpc, runs, slots, writes>>
rgvars == <<wgs, group, gtask>>
hvars == <<hpc, hlog, hcall, txerr, rowserr>>
vars == <<stack, log, nextId, open, tempFiles, result, panicking, crashed, made,
          counter, task, mainpc, runs, slots, writes, wgs, group, gtask,
          hpc, hlog, hcall, txerr, rowserr>>

----------------------------------------------------------------------------
\* Error values.  Nil is Go's nil error; every other error names the call
\* that produced it and the invocation it belongs to.

Nil == [op |-> "nil", id |-> 0]

Err(op, id) == [op |-> op, id |-> id]

Outcomes(op, id) == {Nil, Err(op, id)}

Kinds == {"file", "temp", "db", "tx", "rows"}

\* The acquisition primitive of each resource.
AcquireOp(kind) ==
    CASE kind = "file" -> "OpenFile"
      [] kind = "temp" -> "TempFile"
      [] kind = "db"   -> "Open"
      [] kind = "tx"   -> "Begin"
      [] kind = "rows" -> "Query"

\* `if err != nil { return err }` after the acquisition.
AcquireFailed_Ignored(res) == FALSE

AcquireFailed(res) == res # Nil

\* The deferred calls of an invocation, in the order they run: TempFileResource
\* defers file.Close() and then os.Remove(file.Name()), and deferred calls run
\* last-in first-out; the other resources defer nothing.
DeferredOps_Everywhere(kind) ==
    CASE kind = "temp" -> <<"Remove", "Close">>
      [] kind = "tx"   -> <<"Rollback">>
      [] OTHER         -> <<"Close">>

DeferredOps(kind) ==
    IF kind = "temp" THEN <<"Remove", "Close">> ELSE <<>>

\* The primitives called once the callback has returned err, in call order.
ReleaseOps_SkipOnError(kind, err) ==
    CASE kind = "temp" -> <<"Remove", "Close">>
      [] kind = "tx"   -> IF err # Nil THEN <<"Rollback">> ELSE <<"Commit">>
      [] OTHER         -> IF err # Nil THEN <<>> ELSE <<"Close">>

ReleaseOps_AlwaysCommit(kind, err) ==
    CASE kind = "temp" -> <<"Remove", "Close">>
      [] kind = "tx"   -> <<"Commit">>
      [] OTHER         -> <<"Close">>

ReleaseOps_NoRemove(kind, err) ==
    CASE kind = "temp" -> <<"Close">>
      [] kind = "tx"   -> IF err # Nil THEN <<"Rollback">> ELSE <<"Commit">>
      [] OTHER         -> <<"Close">>

ReleaseOps(kind, err) ==
    CASE kind = "temp" -> DeferredOps(kind)
      [] kind = "tx"   -> IF err # Nil THEN <<"Rollback">> ELSE <<"Commit">>
      [] OTHER         -> <<"Close">>

\* The value an invocation returns: err is what the callback returned, rel
\* the results of the release primitives in call order.
ReturnValue_ReleaseWins(kind, err, rel) ==
    IF kind = "temp" THEN err
    ELSE IF rel[1] # Nil THEN rel[1] ELSE err

ReturnValue_DropRelease(kind, err, rel) == err

ReturnValue(kind, err, rel) ==
    IF kind = "temp" THEN err
    ELSE IF err # Nil THEN err ELSE rel[1]

\* The handle is given back by Close, Commit and Rollback, not by Remove.
ReleasesHandle(op) == op \in {"Close", "Commit", "Rollback"}

----------------------------------------------------------------------------
\* Call stack helpers.

Depth == Len(stack)

Top == stack[Depth]

Popped == SubSeq(stack, 1, Depth - 1)

\* The stack after the innermost invocation has returned v to its caller:
\* the calling callback holds v in its inner variable.
ReturnTo(v) ==
    IF Depth = 1 THEN <<>>
    ELSE [Popped EXCEPT ![Depth - 1].inner = v]

Event(op, id, res) == [op |-> op, id |-> id, res |-> res]

\* The log entries of the calls ops made with results rel on handle id.
RECURSIVE Calls(_, _, _)
Calls(ops, rel, id) ==
    IF ops = <<>> THEN <<>>
    ELSE <<Event(ops[1], id, rel[1])>> \o Calls(Tail(ops), Tail(rel), id)

\* One result per primitive of ops, each ok or failed.
Results(ops, id) ==
    {rel \in [1..Len(ops) -> {Nil} \cup {Err(ops[i], id) : i \in 1..Len(ops)}] :
        \A i \in 1..Len(ops) : rel[i] \in Outcomes(ops[i], id)}

\* What an invocation logs once its callback has returned err: the callback's
\* return, then the release calls (err = callback(file); ... file.Close()).
InvocationTail_ReleaseFirst(id, err, ops, rel) ==
    Calls(ops, rel, id) \o <<Event("callback", id, err)>>

InvocationTail(id, err, ops, rel) ==
    <<Event("callback", id, err)>> \o Calls(ops, rel, id)

----------------------------------------------------------------------------
\* Scoped resources.

\* Before any resource is invoked.
ResStart ==
    /\ stack = <<>>
    /\ log = <<>>
    /\ nextId = 1
    /\ open = {}
    /\ tempFiles = {}
    /\ result = Nil
    /\ panicking = FALSE
    /\ crashed = FALSE

\* Every resource value has been made.
ResInit == ResStart /\ made = Kinds

\* Only the package-level value TempFileResource exists.
ValStart == ResStart /\ made = {"temp"}

\* What a factory call leaves in the log: NewFileResource, NewDBResource,
\* RunTransaction and QueryRows only build and return a closure.
MakeLog_Eager(kind, l) == Append(l, [op |-> AcquireOp(kind), id |-> 0, res |-> Nil])

MakeLog(kind, l) == l

\* A factory is called and returns a resource value.
Make(kind) ==
    /\ ~panicking /\ ~crashed
    /\ kind \notin made
    /\ Cardinality(made \ {"temp"}) < MaxValues
    /\ made' = made \cup {kind}
    /\ log' = MakeLog(kind, log)
    /\ UNCHANGED <<stack, nextId, open, tempFiles, result, panicking, crashed>>
    /\ UNCHANGED <<wgvars, rgvars, hvars>>

\* A resource value is invoked with a callback, by the top-level code or by
\* the callback of the innermost running invocation.  The parent handle of
\* RunTransaction(db) and QueryRows(tx, ...) is a parameter of the factory.
Invoke(kind) ==
    /\ ~panicking /\ ~crashed
    /\ nextId <= MaxInvocations
    /\ Depth < MaxDepth
    /\ Depth > 0 => Top.pc = "callback"
    /\ kind \in made
    /\ stack' = Append(stack, [id |-> nextId, kind |-> kind, pc |-> "acquire",
                               inner |-> Nil])
    /\ nextId' = nextId + 1
    /\ UNCHANGED <<log, open, tempFiles, result, panicking, crashed, made>>
    /\ UNCHANGED <<wgvars, rgvars, hvars>>

\* os.OpenFile / ioutil.TempFile / sql.Open / db.Begin / tx.Query and the
\* check of its error.
Acquire ==
    /\ ~panicking /\ ~crashed
    /\ Depth > 0 /\ Top.pc = "acquire"
    /\ \E res \in Outcomes(AcquireOp(Top.kind), Top.id) :
        LET ev == Event(AcquireOp(Top.kind), Top.id, res) IN
        IF AcquireFailed(res)
        THEN /\ log' = log \o <<ev, Event("return", Top.id, res)>>
             /\ stack' = ReturnTo(res)
             /\ result' = IF Depth = 1 THEN res ELSE result
             /\ UNCHANGED <<open, tempFiles>>
        ELSE /\ log' = Append(log, ev)
             /\ stack' = [stack EXCEPT ![Depth].pc = "callback"]
             /\ open' = IF res = Nil THEN open \cup {Top.id} ELSE open
             /\ tempFiles' = IF Top.kind = "temp" /\ res = Nil
                             THEN tempFiles \cup {Top.id} ELSE tempFiles
             /\ UNCHANGED result
    /\ UNCHANGED <<nextId, panicking, crashed, made>>
    /\ UNCHANGED <<wgvars, rgvars, hvars>>

\* What a callback can return: nil, an error of its own, or the error the
\* invocation nested in it returned.
CallbackValues(f) == {Nil, Err("work", f.id), f.inner}

\* The callback returns err; the release primitives are called and the
\* invocation returns.
CallbackReturn ==
    /\ ~panicking /\ ~crashed
    /\ Depth > 0 /\ Top.pc = "callback"
    /\ \E err \in CallbackValues(Top) :
        LET ops == ReleaseOps(Top.kind, err) IN
        \E rel \in Results(ops, Top.id) :
            LET ret == ReturnValue(Top.kind, err, rel) IN
            /\ log' = log \o InvocationTail(Top.id, err, ops, rel)
                          \o <<Event("return", Top.id, ret)>>
            /\ open' = IF \E i \in 1..Len(ops) : ReleasesHandle(ops[i])
                       THEN open \ {Top.id} ELSE open
            /\ tempFiles' = IF \E i \in 1..Len(ops) : ops[i] = "Remove" /\ rel[i] = Nil
                            THEN tempFiles \ {Top.id} ELSE tempFiles
            /\ stack' = ReturnTo(ret)
            /\ result' = IF Depth = 1 THEN ret ELSE result
    /\ UNCHANGED <<nextId, panicking, crashed, made>>
    /\ UNCHANGED <<wgvars, rgvars, hvars>>

\* The callback panics instead of returning.
CallbackPanic ==
    /\ ~panicking /\ ~crashed
    /\ Depth > 0 /\ Top.pc = "callback"
    /\ log' = Append(log, Event("callback", Top.id, Err("panic", Top.id)))
    /\ panicking' = TRUE
    /\ UNCHANGED <<stack, nextId, open, tempFiles, result, crashed, made>>
    /\ UNCHANGED <<wgvars, rgvars, hvars>>

\* A panic raised in a nested invocation ends the callback of the invocation
\* id that made the nested call as well; the callback the panic was raised
\* in has logged its end already.
PanicPasses(id) ==
    IF log # <<>> /\ log[Len(log)] = Event("callback", id, Err("panic", id))
    THEN <<>>
    ELSE <<Event("callback", id, Err("panic", id))>>

\* The panic leaves the innermost invocation: its deferred calls run, nothing
\* else of it does, and the panic goes on in the calling callback.
Unwind ==
    /\ panicking /\ ~crashed
    /\ Depth > 0
    /\ LET ops == DeferredOps(Top.kind) IN
       \E rel \in Results(ops, Top.id) :
            /\ log' = log \o PanicPasses(Top.id) \o Calls(ops, rel, Top.id)
            /\ open' = IF \E i \in 1..Len(ops) : ReleasesHandle(ops[i])
                       THEN open \ {Top.id} ELSE open
            /\ tempFiles' = IF \E i \in 1..Len(ops) : ops[i] = "Remove" /\ rel[i] = Nil
                            THEN tempFiles \ {Top.id} ELSE tempFiles
    /\ stack' = Popped
    /\ UNCHANGED <<nextId, result, panicking, crashed, made>>
    /\ UNCHANGED <<wgvars, rgvars, hvars>>

\* No caller recovers: the panic ends the program.
Crash ==
    /\ panicking /\ ~crashed
    /\ Depth = 0
    /\ crashed' = TRUE
    /\ UNCHANGED <<stack, log, nextId, open, tempFiles, result, panicking, made>>
    /\ UNCHANGED <<wgvars, rgvars, hvars>>

ResNext ==
    \/ \E kind \in Kinds : Invoke(kind)
    \/ Acquire
    \/ CallbackReturn
    \/ CallbackPanic
    \/ Unwind
    \/ Crash

----------------------------------------------------------------------------
\* SafeWaitGroup.  Tasks are submitted in order 1, 2, ...; task i runs on
\* its own goroutine.

WGInit ==
    /\ counter = 0
    /\ task = [i \in 1..MaxTasks |-> "unsubmitted"]
    /\ mainpc = "idle"
    /\ runs = 0
    /\ slots = [i \in 1..MaxTasks |-> <<>>]
    /\ writes = [i \in 1..MaxTasks |-> 0]

\* An unrecovered panic on any goroutine ends the program.
Alive == \A i \in 1..MaxTasks : task[i] # "panicked"

\* swg.wg.Add(1)
AfterAdd_Forgotten(c) == c

AfterAdd(c) == c + 1

\* swg.wg.Add(-1)
AfterDone_Twice(c) == c - 2

AfterDone_Forgotten(c) == c

AfterDone(c) == c - 1

\* wg.Wait() blocks until the counter is zero.
WaitUnblocked_Always(c) == TRUE

WaitUnblocked(c) == c = 0

\* Run, first statement: swg.wg.Add(1).
RunAdd ==
    /\ Alive
    /\ mainpc \in {"idle", "returned"}
    /\ runs < MaxTasks
    /\ counter' = AfterAdd(counter)
    /\ runs' = runs + 1
    /\ mainpc' = "added"
    /\ UNCHANGED task
    /\ UNCHANGED <<slots, writes>>
    /\ UNCHANGED <<resvars, rgvars, hvars>>

\* Run, second statement: the go statement; Run returns.
RunGo ==
    /\ Alive
    /\ mainpc = "added"
    /\ task' = [task EXCEPT ![runs] = "spawned"]
    /\ mainpc' = "idle"
    /\ UNCHANGED <<counter, runs>>
    /\ UNCHANGED <<slots, writes>>
    /\ UNCHANGED <<resvars, rgvars, hvars>>

\* The goroutine calls task().
TaskStart(i) ==
    /\ Alive
    /\ task[i] = "spawned"
    /\ task' = [task EXCEPT ![i] = "running"]
    /\ UNCHANGED <<counter, mainpc, runs>>
    /\ UNCHANGED <<slots, writes>>
    /\ UNCHANGED <<resvars, rgvars, hvars>>

\* strings.Repeat("*", n)
Stars(n) == [k \in 1..n |-> "*"]

\* The loop variable of the submitting loop: the iteration being submitted,
\* or the next one once Run has returned (slots are numbered from 1, so
\* slot k is result[k-1]).
LoopVar == IF mainpc = "added" THEN runs ELSE runs + 1

\* `i := i // capture i`: the task of iteration own uses its own copy.
CapturedIndex_Shared(own, loopvar) == loopvar

CapturedIndex(own, loopvar) == own

\* task() runs result[i] = strings.Repeat("*", i) and returns.
TaskReturn(i) ==
    /\ Alive
    /\ task[i] = "running"
    /\ task' = [task EXCEPT ![i] = "returned"]
    /\ LET k == CapturedIndex(i, LoopVar) IN
        /\ slots' = [j \in 1..MaxTasks |-> IF j = k THEN Stars(k - 1) ELSE slots[j]]
        /\ writes' = [j \in 1..MaxTasks |-> IF j = k THEN writes[j] + 1 ELSE writes[j]]
    /\ UNCHANGED <<counter, mainpc, runs>>
    /\ UNCHANGED <<resvars, rgvars, hvars>>

\* task() calls runtime.Goexit: the goroutine ends, the statement after
\* task() is not executed.
TaskGoexit(i) ==
    /\ Alive
    /\ task[i] = "running"
    /\ task' = [task EXCEPT ![i] = "exited"]
    /\ UNCHANGED <<counter, mainpc, runs>>
    /\ UNCHANGED <<slots, writes>>
    /\ UNCHANGED <<resvars, rgvars, hvars>>

\* task() panics.
TaskPanic(i) ==
    /\ Alive
    /\ task[i] = "running"
    /\ task' = [task EXCEPT ![i] = "panicked"]
    /\ UNCHANGED <<counter, mainpc, runs>>
    /\ UNCHANGED <<slots, writes>>
    /\ UNCHANGED <<resvars, rgvars, hvars>>

\* The goroutine's statement after task(): swg.wg.Add(-1).
TaskDone(i) ==
    /\ Alive
    /\ task[i] = "returned"
    /\ counter' = AfterDone(counter)
    /\ task' = [task EXCEPT ![i] = "done"]
    /\ UNCHANGED <<mainpc, runs>>
    /\ UNCHANGED <<slots, writes>>
    /\ UNCHANGED <<resvars, rgvars, hvars>>

\* Wait is called.
WaitCall ==
    /\ Alive
    /\ mainpc \in {"idle", "returned"}
    /\ mainpc' = "waiting"
    /\ UNCHANGED <<counter, task, runs>>
    /\ UNCHANGED <<slots, writes>>
    /\ UNCHANGED <<resvars, rgvars, hvars>>

\* Wait returns.
WaitReturn ==
    /\ Alive
    /\ mainpc = "waiting"
    /\ WaitUnblocked(counter)
    /\ mainpc' = "returned"
    /\ UNCHANGED <<counter, task, runs>>
    /\ UNCHANGED <<slots, writes>>
    /\ UNCHANGED <<resvars, rgvars, hvars>>

WGNext ==
    \/ RunAdd
    \/ RunGo
    \/ \E i \in 1..MaxTasks : TaskStart(i)
    \/ \E i \in 1..MaxTasks : TaskReturn(i)
    \/ \E i \in 1..MaxTasks : TaskGoexit(i)
    \/ \E i \in 1..MaxTasks : TaskPanic(i)
    \/ \E i \in 1..MaxTasks : TaskDone(i)
    \/ WaitCall
    \/ WaitReturn

----------------------------------------------------------------------------
\* RunGroup.  Each call g runs on its own goroutine; the tasks its
\* taskRunner submits are numbered in submission order over all calls.

RGInit ==
    /\ wgs = <<>>
    /\ group = [g \in 1..MaxGroups |-> [pc |-> "idle", swg |-> 0, ran |-> FALSE]]
    /\ gtask = [t \in 1..MaxGroupTasks |-> [st |-> "unsubmitted", swg |-> 0, by |-> 0]]

\* An unrecovered panic on any goroutine ends the program.
GroupsAlive == \A t \in 1..MaxGroupTasks : gtask[t].st # "panicked"

\* &safeWaitGroupImpl{new(sync.WaitGroup)}: a wait group allocated by this
\* call, which no earlier call holds.
NewSafeWaitGroup_Shared(heap) == 1

NewSafeWaitGroup(heap) == Len(heap) + 1

\* The tasks submitted so far.
GroupSubmitted == {t \in 1..MaxGroupTasks : gtask[t].st # "unsubmitted"}

\* swg := NewSafeWaitGroup(); taskRunner(swg) is called.
RunGroupCall(g) ==
    /\ GroupsAlive
    /\ group[g].pc = "idle"
    /\ LET w == NewSafeWaitGroup(wgs) IN
        /\ wgs' = IF w > Len(wgs) THEN Append(wgs, 0) ELSE wgs
        /\ group' = [group EXCEPT ![g] = [pc |-> "runner", swg |-> w, ran |-> FALSE]]
    /\ UNCHANGED gtask
    /\ UNCHANGED <<resvars, wgvars, hvars>>

\* taskRunner calls Run on its Spawner: swg.wg.Add(1).
GroupRunAdd(g) ==
    /\ GroupsAlive
    /\ group[g].pc = "runner"
    /\ Cardinality(GroupSubmitted) < MaxGroupTasks
    /\ LET t == Cardinality(GroupSubmitted) + 1
           w == group[g].swg
       IN  /\ wgs' = [wgs EXCEPT ![w] = AfterAdd(@)]
           /\ gtask' = [gtask EXCEPT ![t] = [st |-> "added", swg |-> w, by |-> g]]
    /\ group' = [group EXCEPT ![g].pc = "added"]
    /\ UNCHANGED <<resvars, wgvars, hvars>>

\* Run's go statement; Run returns to taskRunner.
GroupRunGo(g) ==
    /\ GroupsAlive
    /\ group[g].pc = "added"
    /\ \E t \in 1..MaxGroupTasks :
          /\ gtask[t].by = g /\ gtask[t].st = "added"
          /\ gtask' = [gtask EXCEPT ![t].st = "spawned"]
    /\ group' = [group EXCEPT ![g].pc = "runner"]
    /\ UNCHANGED wgs
    /\ UNCHANGED <<resvars, wgvars, hvars>>

\* taskRunner returns; RunGroup calls swg.Wait().
RunnerReturn(g) ==
    /\ GroupsAlive
    /\ group[g].pc = "runner"
    /\ group' = [group EXCEPT ![g].pc = "waiting", ![g].ran = TRUE]
    /\ UNCHANGED <<wgs, gtask>>
    /\ UNCHANGED <<resvars, wgvars, hvars>>

\* swg.Wait() returns; RunGroup returns.
RunGroupReturn(g) ==
    /\ GroupsAlive
    /\ group[g].pc = "waiting"
    /\ WaitUnblocked(wgs[group[g].swg])
    /\ group' = [group EXCEPT ![g].pc = "returned"]
    /\ UNCHANGED <<wgs, gtask>>
    /\ UNCHANGED <<resvars, wgvars, hvars>>

\* The goroutine of task t calls task().
GroupTaskStart(t) ==
    /\ GroupsAlive
    /\ gtask[t].st = "spawned"
    /\ gtask' = [gtask EXCEPT ![t].st = "running"]
    /\ UNCHANGED <<wgs, group>>
    /\ UNCHANGED <<resvars, wgvars, hvars>>

\* task() ends: it returns, calls runtime.Goexit, or panics.
GroupTaskEnd(t) ==
    /\ GroupsAlive
    /\ gtask[t].st = "running"
    /\ \E how \in {"returned", "exited", "panicked"} :
          gtask' = [gtask EXCEPT ![t].st = how]
    /\ UNCHANGED <<wgs, group>>
    /\ UNCHANGED <<resvars, wgvars, hvars>>

\* The goroutine's statement after task(): swg.wg.Add(-1).
GroupTaskDone(t) ==
    /\ GroupsAlive
    /\ gtask[t].st = "returned"
    /\ wgs' = [wgs EXCEPT ![gtask[t].swg] = AfterDone(@)]
    /\ gtask' = [gtask EXCEPT ![t].st = "done"]
    /\ UNCHANGED group
    /\ UNCHANGED <<resvars, wgvars, hvars>>

RGNext ==
    \/ \E g \in 1..MaxGroups : RunGroupCall(g)
    \/ \E g \in 1..MaxGroups : GroupRunAdd(g)
    \/ \E g \in 1..MaxGroups : GroupRunGo(g)
    \/ \E g \in 1..MaxGroups : RunnerReturn(g)
    \/ \E g \in 1..MaxGroups : RunGroupReturn(g)
    \/ \E t \in 1..MaxGroupTasks : GroupTaskStart(t)
    \/ \E t \in 1..MaxGroupTasks : GroupTaskEnd(t)
    \/ \E t \in 1..MaxGroupTasks : GroupTaskDone(t)

----------------------------------------------------------------------------
\* helloSql_Cool: RunTransaction(db).Use around tx.Exec and QueryRows(...).Use.

HelloInit ==
    /\ hpc = "idle"
    /\ hlog = <<>>
    /\ hcall = 0
    /\ txerr = Nil
    /\ rowserr = Nil

\* helloSql_Cool(db, name) is called: RunTransaction(db).Use(...).
HelloCall ==
    /\ hpc = "idle"
    /\ hcall < MaxHelloCalls
    /\ hcall' = hcall + 1
    /\ hpc' = "begin"
    /\ txerr' = Nil
    /\ rowserr' = Nil
    /\ UNCHANGED hlog
    /\ UNCHANGED <<resvars, wgvars, rgvars>>

\* tx, err := db.Begin(); if err != nil { return err }
HelloBegin ==
    /\ hpc = "begin"
    /\ \E res \in Outcomes("Begin", hcall) :
          IF AcquireFailed(res)
          THEN /\ hlog' = hlog \o <<Event("Begin", hcall, res), Event("return", hcall, res)>>
               /\ hpc' = "idle"
          ELSE /\ hlog' = Append(hlog, Event("Begin", hcall, res))
               /\ hpc' = "exec"
    /\ UNCHANGED <<hcall, txerr, rowserr>>
    /\ UNCHANGED <<resvars, wgvars, rgvars>>

\* _, err := tx.Exec(addNameQuery, name); if err != nil { return err }
HelloExec ==
    /\ hpc = "exec"
    /\ \E res \in Outcomes("Exec", hcall) :
          /\ hlog' = Append(hlog, Event("Exec", hcall, res))
          /\ txerr' = res
          /\ hpc' = IF res # Nil THEN "txend" ELSE "query"
    /\ UNCHANGED <<hcall, rowserr>>
    /\ UNCHANGED <<resvars, wgvars, rgvars>>

\* QueryRows(tx, helloQuery, name).Use: rows, err := tx.Query(...);
\* if err != nil { return err }, which the transaction callback returns.
HelloQuery ==
    /\ hpc = "query"
    /\ \E res \in Outcomes(AcquireOp("rows"), hcall) :
          /\ hlog' = Append(hlog, Event(AcquireOp("rows"), hcall, res))
          /\ IF AcquireFailed(res)
             THEN txerr' = res /\ hpc' = "txend"
             ELSE txerr' = txerr /\ hpc' = "scan"
    /\ UNCHANGED <<hcall, rowserr>>
    /\ UNCHANGED <<resvars, wgvars, rgvars>>

\* The rows callback: _ = rows.Next(); return rows.Scan(&result).
HelloScan ==
    /\ hpc = "scan"
    /\ \E res \in Outcomes("Scan", hcall) :
          /\ hlog' = hlog \o <<Event("Next", hcall, Nil), Event("Scan", hcall, res)>>
          /\ rowserr' = res
    /\ hpc' = "rowsend"
    /\ UNCHANGED <<hcall, txerr>>
    /\ UNCHANGED <<resvars, wgvars, rgvars>>

\* QueryRows.Use after its callback: rows.Close(), and the value it returns,
\* which the transaction callback returns (err = QueryRows(...).Use(...);
\* return err).
HelloRowsEnd ==
    /\ hpc = "rowsend"
    /\ LET ops == ReleaseOps("rows", rowserr) IN
        \E rel \in Results(ops, hcall) :
          /\ hlog' = hlog \o Calls(ops, rel, hcall)
          /\ txerr' = ReturnValue("rows", rowserr, rel)
    /\ hpc' = "txend"
    /\ UNCHANGED <<hcall, rowserr>>
    /\ UNCHANGED <<resvars, wgvars, rgvars>>

\* RunTransaction.Use after its callback: Rollback or Commit, and
\* helloSql_Cool returns what Use returned.
HelloTxEnd ==
    /\ hpc = "txend"
    /\ LET ops == ReleaseOps("tx", txerr) IN
        \E rel \in Results(ops, hcall) :
          hlog' = hlog \o Calls(ops, rel, hcall)
                       \o <<Event("return", hcall, ReturnValue("tx", txerr, rel))>>
    /\ hpc' = "idle"
    /\ UNCHANGED <<hcall, txerr, rowserr>>
    /\ UNCHANGED <<resvars, wgvars, rgvars>>

HelloNext ==
    \/ HelloCall
    \/ HelloBegin
    \/ HelloExec
    \/ HelloQuery
    \/ HelloScan
    \/ HelloRowsEnd
    \/ HelloTxEnd

Init == ResInit /\ WGInit /\ RGInit /\ HelloInit

Spec == Init /\ [][ResNext]_vars

\* Scoped resources whose values are made by the factories as the program runs.
ValNext ==
    \/ \E kind \in Kinds : Make(kind)
    \/ \E kind \in Kinds : Invoke(kind)
    \/ Acquire
    \/ CallbackReturn
    \/ CallbackPanic
    \/ Unwind
    \/ Crash

ValInit == ValStart /\ WGInit /\ RGInit /\ HelloInit

ValSpec == ValInit /\ [][ValNext]_vars

\* The Go scheduler runs every runnable goroutine: the submitting goroutine
\* goes on from Add(1) to the go statement, a spawned goroutine calls its
\* task, a goroutine whose task returned executes Add(-1), and a Wait whose
\* counter is zero returns.  Whether a task returns is up to the task.
WGFairness ==
    /\ WF_vars(RunGo)
    /\ WF_vars(WaitReturn)
    /\ \A i \in 1..MaxTasks : WF_vars(TaskStart(i)) /\ WF_vars(TaskDone(i))

WGFairSpec == Init /\ [][WGNext]_vars /\ WGFairness

WGSpec == Init /\ [][WGNext]_vars

----------------------------------------------------------------------------
\* Observations of the log.

Ids == 1..(nextId - 1)

AcquireOps == {AcquireOp(k) : k \in Kinds}

ReleasePrims == {"Close", "Commit", "Rollback"}

\* Positions of the calls of invocation id to one of ops.
At(id, ops) == {i \in DOMAIN log : log[i].id = id /\ log[i].op \in ops}

Count(id, ops) == Cardinality(At(id, ops))

Has(id, op) == \E i \in DOMAIN log : log[i].id = id /\ log[i].op = op

\* Result of the (first) call op of invocation id; None when there is no such call.
None == [op |-> "none", id |-> 0]

Res(id, op) ==
    LET S == At(id, {op}) IN
    IF S = {} THEN None
    ELSE log[CHOOSE i \in S : \A j \in S : i <= j].res

\* The acquisition of invocation id was made through op and succeeded / failed.
Acquired(id, op) == Has(id, op) /\ Res(id, op) = Nil

AcquiredAny(id) ==
    \E i \in DOMAIN log : log[i].id = id /\ log[i].op \in AcquireOps /\ log[i].res = Nil

AcquireFailedAny(id) ==
    \E i \in DOMAIN log : log[i].id = id /\ log[i].op \in AcquireOps /\ log[i].res # Nil

Returned(id) == Has(id, "return")

\* The callback of invocation id returned (it did not panic).
WorkReturned(id) == Has(id, "callback") /\ Res(id, "callback").op # "panic"

----------------------------------------------------------------------------
\* C1: an invocation that has returned called its release primitive (Close,
\* or Commit / Rollback for the transaction) exactly once when its acquire
\* succeeded and never when its acquire failed, whatever the callback
\* returned; no invocation ever calls it twice.
C1_ReleaseExactlyOnce ==
    \A id \in Ids :
        /\ Count(id, ReleasePrims) <= 1
        /\ Returned(id) =>
              Count(id, ReleasePrims) = IF AcquiredAny(id) THEN 1 ELSE 0

C1_Witness ==
    \E id \in Ids :
        /\ Acquired(id, "Query") /\ Returned(id)
        /\ Res(id, "callback") # Nil
        /\ Count(id, {"Close"}) = 1 /\ Res(id, "Close") # Nil

\* C2: file, database-handle and row-cursor resources return the callback's
\* error when the callback failed (Close is still called, its error dropped)
\* and the result of Close when the callback succeeded.
C2_ErrorTable ==
    \A id \in Ids :
        (Returned(id) /\ \E op \in {"OpenFile", "Open", "Query"} : Acquired(id, op)) =>
            /\ Has(id, "callback") /\ Has(id, "Close")
            /\ Res(id, "callback") # Nil => Res(id, "return") = Res(id, "callback")
            /\ Res(id, "callback") = Nil => Res(id, "return") = Res(id, "Close")

C2_Witness ==
    \E id \in Ids :
        /\ Acquired(id, "OpenFile") /\ Returned(id)
        /\ Res(id, "callback") = Err("work", id)
        /\ Res(id, "Close") = Err("Close", id)
        /\ Res(id, "return") = Err("work", id)

\* C3: when the acquire step fails the invocation returns that error and
\* calls neither the callback nor Close, Remove, Commit or Rollback.
C3_AcquireFailure ==
    \A id \in Ids :
        AcquireFailedAny(id) =>
            /\ Returned(id)
            /\ \E op \in AcquireOps : Has(id, op) /\ Res(id, "return") = Res(id, op)
            /\ ~Has(id, "callback")
            /\ Count(id, ReleasePrims \cup {"Remove"}) = 0
            /\ id \notin open /\ id \notin tempFiles

C3_Witness ==
    \E a, b \in Ids :
        /\ Has(a, "Begin") /\ Res(a, "return") = Err("Begin", a)
        /\ Has(b, "TempFile") /\ Res(b, "return") = Err("TempFile", b)

\* C4: after a successful Begin, a failed callback is followed by Rollback
\* and no Commit, a successful callback by Commit and no Rollback; never both.
C4_CommitOrRollback ==
    \A id \in Ids :
        Acquired(id, "Begin") =>
            /\ Count(id, {"Commit", "Rollback"}) <= 1
            /\ WorkReturned(id) =>
                  IF Res(id, "callback") # Nil
                  THEN Count(id, {"Rollback"}) = 1 /\ Count(id, {"Commit"}) = 0
                  ELSE Count(id, {"Commit"}) = 1 /\ Count(id, {"Rollback"}) = 0

C4_Witness ==
    \E a, b \in Ids :
        /\ Acquired(a, "Begin") /\ Res(a, "callback") # Nil /\ Has(a, "Rollback")
        /\ Acquired(b, "Begin") /\ Res(b, "callback") = Nil /\ Has(b, "Commit")

\* C5: RunTransaction.Use returns the callback's error when the callback
\* failed (the Rollback result is dropped), otherwise the result of Commit;
\* it returns nil only when the callback and Commit both succeeded.
C5_TxReturnValue ==
    \A id \in Ids :
        (Acquired(id, "Begin") /\ Returned(id)) =>
            /\ Res(id, "callback") # Nil => Res(id, "return") = Res(id, "callback")
            /\ Res(id, "callback") = Nil =>
                  Has(id, "Commit") /\ Res(id, "return") = Res(id, "Commit")
            /\ Res(id, "return") = Nil =>
                  Res(id, "callback") = Nil /\ Res(id, "Commit") = Nil

C5_Witness ==
    \E a, b \in Ids :
        /\ Acquired(a, "Begin") /\ Res(a, "callback") = Nil
        /\ Res(a, "return") = Err("Commit", a)
        /\ Acquired(b, "Begin") /\ Res(b, "callback") = Err("work", b)
        /\ Has(b, "Rollback") /\ Res(b, "Rollback") = Err("Rollback", b)
        /\ Res(b, "return") = Err("work", b)

\* C6: a TempFileResource invocation whose callback succeeded and whose
\* Close or Remove failed returns an error.
C6_TempReleaseErrorReturned ==
    \A id \in Ids :
        (Acquired(id, "TempFile") /\ Returned(id) /\ Res(id, "callback") = Nil
            /\ (Res(id, "Close") # Nil \/ Res(id, "Remove") # Nil)) =>
            Res(id, "return") \in {Res(id, "Close"), Res(id, "Remove")} \ {Nil}

\* C7: in a TempFileResource invocation Close is called before Remove.
C7_CloseBeforeRemove ==
    \A id \in Ids :
        (Acquired(id, "TempFile") /\ Returned(id)) =>
            /\ Has(id, "Close") /\ Has(id, "Remove")
            /\ \A i \in At(id, {"Close"}), j \in At(id, {"Remove"}) : i < j

\* C8: a TempFileResource invocation whose create succeeded calls Remove
\* exactly once before it returns, whatever the callback returned and
\* whatever Close gave; if Remove succeeded the temp file is gone.
C8_TempFileRemoved ==
    \A id \in Ids :
        Acquired(id, "TempFile") =>
            /\ Count(id, {"Remove"}) <= 1
            /\ Returned(id) =>
                  /\ Count(id, {"Remove"}) = 1
                  /\ \A i \in At(id, {"Remove"}), j \in At(id, {"return"}) : i < j
                  /\ Res(id, "Remove") = Nil => id \notin tempFiles

C8_Witness ==
    \E id \in Ids :
        /\ Acquired(id, "TempFile") /\ Returned(id)
        /\ Res(id, "callback") # Nil
        /\ Res(id, "Close") # Nil
        /\ Res(id, "Remove") = Nil
        /\ id \notin tempFiles

----------------------------------------------------------------------------
\* Observations of the wait group.

Submitted == 1..runs

\* Tasks whose task() call is over.
Finished == {i \in 1..MaxTasks : task[i] \in {"returned", "done", "exited"}}

\* Tasks whose goroutine has executed swg.wg.Add(-1).
Decremented == {i \in 1..MaxTasks : task[i] = "done"}

\* C9: when Wait has returned, every task submitted before it has finished
\* and the counter is 0.
C9_WaitReturnsWhenAllDone ==
    mainpc = "returned" =>
        /\ counter = 0
        /\ \A i \in Submitted : i \in Finished

C9_Witness ==
    /\ mainpc = "returned"
    /\ runs >= 2
    /\ \A i \in Submitted : task[i] = "done"

\* C10 as stated: the counter is never negative and equals the number of
\* Run calls minus the number of submitted tasks that have finished.
C10_CountIsRunsMinusFinished ==
    /\ counter >= 0
    /\ counter = runs - Cardinality(Finished)

\* C10 amended: the counter is never negative and equals the number of Run
\* calls minus the number of task goroutines that have executed Add(-1); a
\* goroutine executes it only after its task has returned, so the counter is
\* at least the number of Run calls minus the number of finished tasks.
C10_CountIsRunsMinusDecrements ==
    /\ counter >= 0
    /\ counter = runs - Cardinality(Decremented)
    /\ Decremented \subseteq Finished
    /\ counter >= runs - Cardinality(Finished)

C10_Witness ==
    \E i, j \in Submitted :
        /\ task[i] = "returned" /\ task[j] = "done"
        /\ counter = runs - 1

\* Goroutines that have ended without returning from task().
Aborted == {i \in 1..MaxTasks : task[i] \in {"exited", "panicked"}}

\* C11: the decrement paired with a Run call runs on every exit path of the
\* task: a goroutine that ended, normally or by runtime.Goexit or a panic,
\* has decremented the counter once.
C11_DecrementOnEveryExit ==
    counter = runs - Cardinality(Decremented \cup Aborted)

\* C12: if every running task eventually returns, a Wait that has been
\* called eventually returns (at once when nothing was submitted).
C12_WaitEventuallyReturns ==
    (\A i \in 1..MaxTasks : [](task[i] = "running" => <>(task[i] = "returned")))
        => ((mainpc = "waiting") ~> (mainpc = "returned"))

C12_Witness ==
    /\ mainpc = "waiting"
    /\ counter > 0
    /\ \E i \in Submitted : task[i] = "running"

\* Submitted tasks whose goroutine has not got to the end of task().
Unfinished == {i \in Submitted : task[i] \in {"unsubmitted", "spawned", "running"}}

\* C18: Run increments the counter before it starts the goroutine and before
\* it returns: a goroutine exists only for a counted task, and the counter
\* includes every submitted task that has not finished, so it is not zero
\* while one of them is unfinished.
C18_CountedBeforeStarted ==
    /\ \A i \in 1..MaxTasks : task[i] # "unsubmitted" => i \in Submitted
    /\ counter >= Cardinality(Unfinished)
    /\ (mainpc \in {"idle", "waiting", "returned"} /\ Unfinished # {}) => counter > 0

C18_Witness ==
    /\ mainpc = "waiting"
    /\ \E i \in Submitted : task[i] = "spawned"
    /\ counter = Cardinality(Unfinished)
    /\ counter >= 2

\* C19: when Wait has returned, slot i holds i-1 asterisks for every
\* submitted task i (result[i-1] = strings.Repeat("*", i-1)), each such slot
\* was written exactly once and the other slots were never written, in every
\* interleaving of the tasks.
C19_FanOutResult ==
    mainpc = "returned" =>
        /\ \A i \in 1..MaxTasks :
              /\ slots[i] = IF i <= runs THEN Stars(i - 1) ELSE <<>>
              /\ Len(slots[i]) = IF i <= runs THEN i - 1 ELSE 0
              /\ writes[i] = IF i <= runs THEN 1 ELSE 0
        /\ runs >= 3 => SubSeq(slots, 1, 3) = << <<>>, <<"*">>, <<"*", "*">> >>

C19_Witness ==
    /\ mainpc = "returned"
    /\ runs = 3
    /\ slots[1] = <<>> /\ slots[2] = <<"*">> /\ slots[3] = <<"*", "*">>

----------------------------------------------------------------------------
\* Positions in the log.

\* Position of the first call of invocation id to one of ops (0 when none).
First(id, ops) ==
    LET S == At(id, ops) IN
    IF S = {} THEN 0
    ELSE CHOOSE i \in S : \A j \in S : i <= j

AcqAt(id) == First(id, AcquireOps)

CbAt(id) == First(id, {"callback"})

RelAt(id) == First(id, ReleasePrims)

\* Invocations on the stack whose position is pc.
FramesAt(pc) == {stack[i].id : i \in {j \in 1..Depth : stack[j].pc = pc}}

\* C14: within one invocation the acquire is made once; after a successful
\* acquire the callback is called once and returns after the acquire, and
\* the release is called once, after the callback has returned; an
\* invocation that has not acquired yet has made no call, and one whose
\* callback is running has made no release call.  Nothing is retried.
C14_AcquireCallbackRelease ==
    /\ \A id \in Ids :
          /\ Count(id, AcquireOps) <= 1
          /\ Count(id, {"callback"}) <= 1
          /\ Count(id, ReleasePrims) <= 1
          /\ Has(id, "callback") => AcquiredAny(id) /\ AcqAt(id) < CbAt(id)
          /\ \A r \in At(id, ReleasePrims \cup {"Remove"}) :
                Has(id, "callback") /\ CbAt(id) < r
          /\ (Returned(id) /\ AcquiredAny(id)) =>
                /\ Count(id, {"callback"}) = 1 /\ Count(id, ReleasePrims) = 1
                /\ \A t \in At(id, {"return"}) : RelAt(id) < t
    /\ \A id \in FramesAt("acquire") : At(id, AcquireOps \cup ReleasePrims \cup {"callback", "Remove"}) = {}
    /\ \A id \in FramesAt("callback") :
          AcquiredAny(id) /\ At(id, ReleasePrims \cup {"Remove", "return"}) = {}

C14_Witness ==
    \E id \in Ids :
        /\ Acquired(id, "Open") /\ Returned(id)
        /\ AcqAt(id) < CbAt(id) /\ CbAt(id) < RelAt(id)
        /\ Res(id, "callback") = Nil /\ Res(id, "Close") = Nil

\* b was acquired while the callback of a was running.
NestedIn(a, b) ==
    /\ AcquiredAny(a) /\ AcquiredAny(b)
    /\ AcqAt(a) < AcqAt(b)
    /\ Has(a, "callback") => AcqAt(b) < CbAt(a)

\* C15: when B is invoked inside the callback of A, B is acquired after A and
\* released before the callback of A returns, hence before A is released;
\* releases come in the reverse order of the acquires, and every invocation
\* below the innermost one on the stack is inside its callback, unreleased.
C15_NestingBracketed ==
    /\ \A a \in Ids : \A b \in Ids \ {a} :
          LET ra == RelAt(a)
              rb == RelAt(b)
          IN  /\ (NestedIn(a, b) /\ WorkReturned(a)) =>
                    /\ rb > 0
                    /\ rb < CbAt(a)
                    /\ ra > 0 => rb < ra
              /\ (ra > 0 /\ rb > 0 /\ AcqAt(a) < AcqAt(b) /\ AcqAt(b) < ra) => rb < ra
    /\ \A i, j \in 1..Depth :
          i < j =>
              /\ stack[i].pc = "callback" /\ RelAt(stack[i].id) = 0
              /\ \A k \in At(stack[j].id, AcquireOps) : AcqAt(stack[i].id) < k

C15_Witness ==
    \E a, b \in Ids :
        /\ Acquired(a, "TempFile") /\ Acquired(b, "TempFile")
        /\ NestedIn(a, b) /\ Returned(a)
        /\ AcqAt(a) < AcqAt(b) /\ RelAt(b) < CbAt(a) /\ RelAt(b) < RelAt(a)

\* C16: in every reachable state the handles acquired and not yet released
\* are exactly those of the invocations whose callback is running; none is
\* left once the outermost invocation is over.
C16_NoLeak ==
    /\ open = FramesAt("callback")
    /\ Depth = 0 => open = {}

\* C17: making a resource value acquires nothing: as long as no value has
\* been invoked the log is empty and no handle or temp file exists.  Each
\* invocation is one cycle of its own: one acquire attempt per invocation
\* (none before its acquire step), and one release per successful acquire
\* once it has returned, whatever the earlier invocations did.
C17_FactoryAcquiresNothing ==
    /\ nextId = 1 => log = <<>> /\ open = {} /\ tempFiles = {}
    /\ \A i \in DOMAIN log : log[i].id \in Ids
    /\ \A id \in Ids :
          /\ Count(id, AcquireOps) = IF id \in FramesAt("acquire") THEN 0 ELSE 1
          /\ Returned(id) => Count(id, ReleasePrims) = IF AcquiredAny(id) THEN 1 ELSE 0
    /\ Cardinality({i \in DOMAIN log : log[i].op \in AcquireOps})
          = (nextId - 1) - Cardinality(FramesAt("acquire"))

C17_Witness ==
    /\ made = {"temp", "file"}
    /\ \E a, b \in Ids :
          /\ a < b
          /\ Has(a, "OpenFile") /\ Res(a, "OpenFile") # Nil /\ Returned(a)
          /\ Acquired(b, "OpenFile") /\ Returned(b) /\ Count(b, {"Close"}) = 1

----------------------------------------------------------------------------
\* RunGroup.

RGSpec == Init /\ [][RGNext]_vars

\* The tasks submitted by the taskRunner of call g.
TasksOf(g) == {t \in 1..MaxGroupTasks : gtask[t].by = g}

\* The RunGroup calls that have made their wait group.
Started == {g \in 1..MaxGroups : group[g].pc # "idle"}

\* C13: a RunGroup call has returned only if its taskRunner has returned
\* and every task submitted through its Spawner has returned and been
\* counted off; two RunGroup calls never hold the same wait group, and a
\* wait group counts the unfinished tasks of its own call only.
C13_RunGroupWaitsForItsTasks ==
    /\ \A g \in 1..MaxGroups :
          group[g].pc = "returned" =>
              /\ group[g].ran
              /\ \A t \in TasksOf(g) : gtask[t].st = "done"
    /\ \A g, h \in Started : g # h => group[g].swg # group[h].swg
    /\ \A g \in Started :
          wgs[group[g].swg] = Cardinality({t \in TasksOf(g) : gtask[t].st # "done"})

C13_Witness ==
    /\ \A g \in 1..MaxGroups : group[g].pc = "returned" /\ TasksOf(g) # {}
    /\ \E g, h \in 1..MaxGroups : group[g].swg # group[h].swg

----------------------------------------------------------------------------
\* helloSql_Cool.

HelloSpec == Init /\ [][HelloNext]_vars

\* Position in hlog of the call of op made by helloSql_Cool call n; 0 if none.
HAt(n, op) ==
    LET S == {i \in DOMAIN hlog : hlog[i].id = n /\ hlog[i].op = op} IN
    IF S = {} THEN 0 ELSE CHOOSE i \in S : \A j \in S : i <= j

HCount(n, op) == Cardinality({i \in DOMAIN hlog : hlog[i].id = n /\ hlog[i].op = op})

HOk(n, op) == HAt(n, op) > 0 /\ hlog[HAt(n, op)].res = Nil

HFailed(n, op) == HAt(n, op) > 0 /\ hlog[HAt(n, op)].res # Nil

HReturned(n) == HAt(n, "return") > 0

\* The error of the first call of n that failed; nil when none failed.
FirstFailure(n) ==
    LET S == {i \in DOMAIN hlog : hlog[i].id = n /\ hlog[i].op # "return" /\ hlog[i].res # Nil} IN
    IF S = {} THEN Nil ELSE hlog[CHOOSE i \in S : \A j \in S : i <= j].res

\* The call ended the transaction (Commit or Rollback); 0 if not yet.
TxEndAt(n) == IF HAt(n, "Commit") > 0 THEN HAt(n, "Commit") ELSE HAt(n, "Rollback")

\* Rolled back, never committed, once the call has returned.
RolledBack(n) ==
    /\ HAt(n, "Commit") = 0
    /\ HReturned(n) => HAt(n, "Rollback") > 0 /\ HAt(n, "Rollback") < HAt(n, "return")

\* The cursor was closed, and before the transaction was ended.
ClosedBeforeTxEnd(n) ==
    TxEndAt(n) > 0 => HAt(n, "Close") > 0 /\ HAt(n, "Close") < TxEndAt(n)

\* The clauses about the INSERT, the scan, Commit and the returned error.
HelloCommon(n) ==
    /\ \A op \in {"Begin", "Exec", "Query", "Next", "Scan", "Close", "Commit", "Rollback", "return"} :
          HCount(n, op) <= 1
    /\ HFailed(n, "Exec") => HAt(n, "Query") = 0 /\ RolledBack(n)
    /\ HFailed(n, "Scan") => ClosedBeforeTxEnd(n) /\ RolledBack(n)
    /\ HAt(n, "Commit") > 0 =>
          /\ HAt(n, "Rollback") = 0
          /\ \A op \in {"Exec", "Query", "Scan", "Close"} :
                HOk(n, op) /\ HAt(n, op) < HAt(n, "Commit")
    /\ HOk(n, "Query") => ClosedBeforeTxEnd(n)
    /\ HAt(n, "Close") > 0 => HOk(n, "Query") /\ HAt(n, "Scan") > 0
    /\ HReturned(n) => hlog[HAt(n, "return")].res = FirstFailure(n)

\* C20 as stated: a failed query, like a failed scan, is followed by the
\* cursor's Close and then by Rollback.
C20_QueryFailureClosesCursor ==
    \A n \in 1..hcall :
        /\ HelloCommon(n)
        /\ HFailed(n, "Query") => ClosedBeforeTxEnd(n) /\ RolledBack(n)

\* C20: in helloSql_Cool a failed INSERT is followed by no query and by
\* Rollback; a failed query yields no cursor, so it is followed by no Scan
\* and no Close, and by Rollback; a failed scan is followed by the cursor's
\* Close and then Rollback; Commit is called only after INSERT, query, scan
\* and Close all succeeded; whenever the query succeeded the cursor is
\* closed before Commit or Rollback; the call returns its first failure.
C20_HelloComposition ==
    \A n \in 1..hcall :
        /\ HelloCommon(n)
        /\ HFailed(n, "Query") =>
              /\ HAt(n, "Scan") = 0 /\ HAt(n, "Close") = 0
              /\ RolledBack(n)

C20_Witness ==
    \E n, m \in 1..hcall :
        /\ HReturned(n) /\ HFailed(n, "Query") /\ HAt(n, "Rollback") > 0
        /\ HReturned(m) /\ HFailed(m, "Scan")
        /\ HAt(m, "Close") > 0 /\ HAt(m, "Close") < HAt(m, "Rollback")

----------------------------------------------------------------------------
\* Panicking callbacks.

\* The callback of invocation id ended by a panic.
Panicked(id) ==
    \E i \in DOMAIN log : log[i] = Event("callback", id, Err("panic", id))

\* The invocations the panic has left already.
Unwound == {id \in Ids : Panicked(id)} \ {stack[i].id : i \in 1..Depth}

\* C21: when the callback panics, an invocation of NewFileResource,
\* NewDBResource, RunTransaction or QueryRows calls no Close, Commit or
\* Rollback and its handle stays acquired; an invocation of TempFileResource
\* calls its deferred Remove and Close, once each, and gives its handle back.
\* No release is called while the panicking callback's frame is still there.
C21_PanicSkipsRelease ==
    /\ \A id \in Unwound :
          IF \E i \in DOMAIN log : log[i].id = id /\ log[i].op = "TempFile"
          THEN /\ Count(id, {"Remove"}) = 1 /\ Count(id, {"Close"}) = 1
               /\ id \notin open
               /\ Res(id, "Remove") = Nil => id \notin tempFiles
          ELSE /\ At(id, ReleasePrims \cup {"Remove"}) = {}
               /\ id \in open
    /\ \A i \in 1..Depth :
          Panicked(stack[i].id) =>
              /\ At(stack[i].id, ReleasePrims \cup {"Remove"}) = {}
              /\ stack[i].id \in open

C21_Witness ==
    /\ Depth = 0
    /\ \E a, b \in Unwound :
          /\ Acquired(a, "TempFile") /\ Has(a, "Remove") /\ Has(a, "Close") /\ a \notin open
          /\ Acquired(b, "OpenFile") /\ ~Has(b, "Close") /\ b \in open

====
